---------------------------- MODULE Spec2Model ----------------------------
(* Model of the bunny-chat client: the App controller (src/src/App.tsx),   *)
(* the WebSocketService connection manager (src/unnamed/part_001) and the  *)
(* AuthService session client (src/src/services/auth.ts).                  *)
EXTENDS Integers, Sequences, FiniteSets, TLC

VARIABLES
    username,        \* App state: username
    roomName,        \* App state: roomName
    isConnected,     \* App state: isConnected
    messages,        \* App state: messages (DisplayMessage[])
    users,           \* App state: users
    hasMoreHistory,  \* App state: hasMoreHistory
    pageToken,       \* App state: pageToken
    hasNewMessage,   \* App state: hasNewMessage
    wsCur,           \* App ref ws.current: 0 (null) or the index of a service
    cleanupRef,      \* App ref cleanupRef.current: the set of <<service, set>> unsubscribers
    mounted,         \* startup effect: its "mounted" flag
    startup,         \* startup effect: "pending" while its checkSession is in flight
    conns,           \* connectWebSocket invocations suspended at an await
    discs,           \* handleDisconnect invocations suspended at await logout()
    svc,             \* the WebSocketService instances
    last             \* what the last handler did: its console output, throw, transmitted frame

vars == <<username, roomName, isConnected, messages, users, hasMoreHistory,
          pageToken, hasNewMessage, wsCur, cleanupRef, mounted, startup, conns,
          discs, svc, last>>

appVars == <<username, roomName, isConnected, messages, users, hasMoreHistory,
             pageToken, hasNewMessage>>

-----------------------------------------------------------------------------
(* Bounds of the model. *)

MaxId == 2        \* server ids are 1..MaxId
MaxLog == 3       \* the log is explored up to this length
MaxHist == 2      \* a history array carries at most this many items
MaxSvc == 2       \* WebSocketService instances constructed in one run
MaxDisc == 1      \* handleDisconnect invocations in flight at once

-----------------------------------------------------------------------------
(* Optional fields (id?: number, history?: [...], userList?: string[]): an  *)
(* absent field is the empty set, a present one the singleton of its value, *)
(* so that undefined === undefined is TRUE as in JavaScript.  Optional      *)
(* strings are "" when absent: the code tests them for truthiness only.    *)

Absent == {}
Some(v) == {v}
IsDefined(o) == o # {}
ValueOf(o) == CHOOSE v \in o : TRUE

Ids == 1 .. MaxId
OptIds == {Absent} \cup {Some(i) : i \in Ids}
LocalUser == "alice"
Names == {"alice", "bob"}
Rooms == {"", "r"}
Reactions == {"+", "-"}

SeqsUpTo(S, n) == UNION {[1 .. k -> S] : k \in 0 .. n}

(* WebSocketMessage, inbound.  Every frame has every field. *)
Frame(t) ==
    [type |-> t, id |-> Absent, username |-> "", content |-> "", room |-> "",
     userList |-> Absent, timestamp |-> "", imageData |-> "", imageType |-> "",
     reactionToId |-> Absent, reaction |-> "", history |-> Absent,
     hasMore |-> FALSE, pageToken |-> ""]

(* An item of WebSocketMessage.history: a historical message or a reaction. *)
HistItem(t) ==
    [type |-> t, id |-> Absent, username |-> "", content |-> "",
     timestamp |-> "", imageData |-> "", imageType |-> "", reaction |-> "",
     history |-> Absent]

(* DisplayMessage.  reactions is optional. *)
Display(t) ==
    [type |-> t, id |-> Absent, sender |-> "", content |-> "", timestamp |-> "",
     imageData |-> "", imageType |-> "", reactions |-> Absent]

-----------------------------------------------------------------------------
(* The message handler's state updaters, App.tsx 58-269. *)

usernameRef == username

FirstIndex(S) ==
    IF S = {} THEN Absent ELSE Some(CHOOSE k \in S : \A j \in S : k <= j)

(* A faulty variant: the entry takes the local user as its sender. *)
ChatEntryFromSelf(m) ==
    [Display("chat") EXCEPT !.id = m.id, !.sender = username,
                            !.content = m.content, !.timestamp = m.timestamp]

ChatEntry(m) ==
    [Display("chat") EXCEPT !.id = m.id, !.sender = m.username,
                            !.content = m.content, !.timestamp = m.timestamp]

(* A faulty variant: no entry is ever found. *)
ChatExistsNever(prev, m) == FALSE

ChatExists(prev, m) == \E k \in 1 .. Len(prev) : prev[k].id = m.id

(* A faulty variant: the new entry is put in front of the log. *)
ChatUpdatePrepending(prev, m) ==
    IF ChatExists(prev, m) THEN prev ELSE <<ChatEntry(m)>> \o prev

ChatUpdate(prev, m) ==
    IF ChatExists(prev, m) THEN prev ELSE Append(prev, ChatEntry(m))

ImageEntry(m) ==
    [Display("image") EXCEPT !.id = m.id, !.sender = m.username,
                             !.imageData = m.imageData,
                             !.imageType = m.imageType,
                             !.timestamp = m.timestamp]

IsOwnMessage(m) == m.username = usernameRef

ImageIndex(prev, m) ==
    FirstIndex({k \in 1 .. Len(prev) : /\ prev[k].type = "image"
                                        /\ prev[k].imageData = m.imageData
                                        /\ prev[k].sender = username})

ImagePatches(prev, m) == IsOwnMessage(m) /\ IsDefined(ImageIndex(prev, m))

(* A faulty variant: a new image entry is put in front of the log. *)
ImageUpdatePrepending(prev, m) ==
    IF ImagePatches(prev, m)
    THEN [prev EXCEPT ![ValueOf(ImageIndex(prev, m))].id = m.id]
    ELSE <<ImageEntry(m)>> \o prev

ImageUpdate(prev, m) ==
    IF ImagePatches(prev, m)
    THEN [prev EXCEPT ![ValueOf(ImageIndex(prev, m))].id = m.id]
    ELSE Append(prev, ImageEntry(m))

IsValidReaction(r) ==
    r.type = "reaction" /\ r.username # "" /\ r.reaction # "" /\ r.timestamp # ""

ReactionOf(r) ==
    [username |-> r.username, reaction |-> r.reaction, timestamp |-> r.timestamp]

ReactionsOf(rs) == [k \in 1 .. Len(rs) |-> ReactionOf(rs[k])]

ValidReactions(m) ==
    IF IsDefined(m.history) THEN SelectSeq(ValueOf(m.history), IsValidReaction)
    ELSE <<>>

FilteredReactions(m) ==
    SelectSeq(ValidReactions(m),
              LAMBDA r : ~(r.username = m.username /\ r.reaction = m.reaction))

(* A faulty variant: the embedded history is taken as it is. *)
NewReactionsUnfiltered(m) == ReactionsOf(ValidReactions(m))

NewReactions(m) ==
    IF Len(FilteredReactions(m)) < Len(ValidReactions(m))
    THEN ReactionsOf(FilteredReactions(m))
    ELSE ReactionsOf(ValidReactions(m))

ReactionTarget(prev, m) ==
    FirstIndex({k \in 1 .. Len(prev) : prev[k].id = m.reactionToId})

(* A faulty variant: every entry is given the recomputed reactions. *)
ReactionUpdateEveryEntry(prev, m) ==
    IF IsDefined(ReactionTarget(prev, m))
    THEN [k \in 1 .. Len(prev) |->
             [prev[k] EXCEPT !.reactions = Some(NewReactions(m))]]
    ELSE prev

ReactionUpdate(prev, m) ==
    IF IsDefined(ReactionTarget(prev, m))
    THEN [prev EXCEPT ![ValueOf(ReactionTarget(prev, m))].reactions =
                          Some(NewReactions(m))]
    ELSE prev

HistoryEntry(h) ==
    [Display(IF h.type = "image" THEN "image" ELSE "chat") EXCEPT
        !.id = h.id, !.sender = h.username, !.content = h.content,
        !.timestamp = h.timestamp, !.imageData = h.imageData,
        !.imageType = h.imageType,
        !.reactions = IF IsDefined(h.history)
                      THEN Some(ReactionsOf(SelectSeq(ValueOf(h.history),
                                                      IsValidReaction)))
                      ELSE Absent]

HistoryDisplayMessages(m) ==
    [k \in 1 .. Len(ValueOf(m.history)) |-> HistoryEntry(ValueOf(m.history)[k])]

(* A faulty variant: the batch is put after the log. *)
HistoryUpdateAppending(prev, m) == prev \o HistoryDisplayMessages(m)

HistoryUpdate(prev, m) == HistoryDisplayMessages(m) \o prev

Now == "now"

(* A faulty variant: the synthetic entry is a chat entry. *)
NotificationEntryAsChat(text) ==
    [Display("chat") EXCEPT !.content = text, !.timestamp = Now]

NotificationEntry(text) ==
    [Display("notification") EXCEPT !.content = text, !.timestamp = Now]

JoinLeaveText(m) ==
    m.username \o " has " \o (IF m.type = "join" THEN "joined" ELSE "left")
               \o " room " \o m.room

FatalPatterns ==
    {"Authentication failed", "Username already exists", "Invalid room name"}

(* text.includes(p), over the texts of the model: the pattern itself, or   *)
(* the pattern inside a longer text; the comparison is case-sensitive      *)
Includes(text, p) == text \in {p, "Error: " \o p \o "."}

(* A faulty variant: every text is fatal. *)
IsFatalErrorAlways(text) == TRUE

IsFatalError(text) == \E p \in FatalPatterns : Includes(text, p)

(* What a handler did, as its caller and the console see it. *)

Did(op, out) ==
    [op |-> op, out |-> out, sent |-> Absent, threw |-> FALSE, notified |-> {}]

-----------------------------------------------------------------------------
(* WebSocketService, src/unnamed/part_001. *)

HandlerSets == {"message", "error", "close", "open"}

(* An instance: where initialize() stands (phase) and which of its awaits   *)
(* have settled and how (done); the socket it constructed (sock, "none"     *)
(* before new WebSocket) and whether this.ws refers to it (ws); the fields  *)
(* isConnecting and the four handler sets that have a subscriber.           *)
NoSvc ==
    [phase |-> "unborn", user |-> "", room |-> "", token |-> "",
     sock |-> "none", ws |-> FALSE, isConnecting |-> FALSE, handlers |-> {},
     done |-> <<>>]

(* this.ws?.readyState *)
ReadyState(s) == IF s.ws THEN s.sock ELSE "undefined"

(* constructor + initialize() up to its first await *)
NewService(user, room, token) ==
    [NoSvc EXCEPT !.phase = IF token # "" THEN "auth" ELSE "check",
                  !.user = user, !.room = room, !.token = token]

(* connect(): the guard, then new WebSocket(url) and setupEventHandlers() *)
(* A faulty variant: connect() has no guard. *)
ConnectGuardNever(s) == FALSE

ConnectGuard(s) == s.isConnecting \/ ReadyState(s) = "OPEN"

SvcConnect(s) ==
    IF ConnectGuard(s) THEN s
    ELSE [s EXCEPT !.isConnecting = TRUE, !.sock = "CONNECTING", !.ws = TRUE]

(* ws.close(1000, ...) on the socket object *)
SockAfterClose(st) == IF st \in {"CONNECTING", "OPEN"} THEN "CLOSING" ELSE st

(* disconnect() *)
SvcDisconnect(s) ==
    [s EXCEPT !.sock = IF s.ws THEN SockAfterClose(s.sock) ELSE s.sock,
              !.ws = FALSE, !.isConnecting = FALSE, !.handlers = {}]

(* A faulty variant: any socket the instance holds will do. *)
CanSendOnAnySocket(s) == s.ws

(* sendMessage(): transmits only when readyState is OPEN, throws otherwise *)
CanSend(s) == ReadyState(s) = "OPEN"

SendResult(op, s, frame) ==
    IF CanSend(s)
    THEN [Did(op, "Sending WebSocket message") EXCEPT !.sent = Some(frame)]
    ELSE [Did(op, "WebSocket is not connected") EXCEPT !.threw = TRUE]

(* the unsubscribe closures returned by onMessage/onOpen/onClose/onError *)
Unsubscribed(services, refs) ==
    [i \in DOMAIN services |->
        [services[i] EXCEPT !.handlers = @ \ {r[2] : r \in {q \in refs : q[1] = i}}]]

Subscriptions(i) == {<<i, h>> : h \in HandlerSets}

(* AuthService, src/src/services/auth.ts.  A response of the server or the  *)
(* network is one of: "network" (fetch rejects), "http_error" (non-2xx),    *)
(* "bad_json" (2xx, body does not parse), or a parsed 2xx body.             *)

AuthResponses == {"network", "http_error", "bad_json", "success", "denied"}

(* fetchWithCredentials(): throws when fetch rejects and when the status is *)
(* not 2xx; response.json(): throws when the body does not parse           *)
FetchThrows(status) == status \in {"network", "http_error"}
JsonThrows(status) == status = "bad_json"

(* data.success of a parsed /auth body *)
AuthSuccess(resp) == resp = "success"

(* A faulty variant: a parsed body is returned whatever its success field. *)
AuthenticateReturnsAnyBody(resp) == ~FetchThrows(resp) /\ ~JsonThrows(resp)

(* authenticate(): returns only data with success = true, throws otherwise *)
AuthenticateReturns(resp) ==
    ~FetchThrows(resp) /\ ~JsonThrows(resp) /\ AuthSuccess(resp)

(* how the call ended: the value returned, or the message of the error *)
AuthOutcome(resp) ==
    IF AuthenticateReturns(resp) THEN "authenticate returned"
    ELSE IF FetchThrows(resp) \/ JsonThrows(resp) THEN "authenticate threw"
    ELSE "authenticate threw Authentication failed"

SessionBodies ==
    [valid : BOOLEAN, username : {"", LocalUser}, room : Rooms]

NoSession == [valid |-> FALSE, username |-> "", room |-> ""]

SessionResponses ==
    {[status |-> st, body |-> NoSession] : st \in {"network", "http_error", "bad_json"}}
    \cup {[status |-> "ok", body |-> b] : b \in SessionBodies}

(* checkSession(): the try block throws when the fetch or the parse does;   *)
(* the catch block returns {valid: false} and rethrows nothing               *)
SessionTryThrows(resp) == FetchThrows(resp.status) \/ JsonThrows(resp.status)

(* A faulty variant: the catch block rethrows, as that of logout does. *)
CheckSessionRethrows(resp) == SessionTryThrows(resp)

CheckSessionThrows(resp) == FALSE

CheckSession(resp) ==
    IF SessionTryThrows(resp) THEN NoSession ELSE resp.body

(* how the call ended, as the caller and the console ('Session check       *)
(* error', line 61) tell                                                    *)
SessionOutcome(resp) ==
    IF CheckSessionThrows(resp) THEN "checkSession threw"
    ELSE IF SessionTryThrows(resp) THEN "checkSession caught"
    ELSE IF CheckSession(resp).valid THEN "checkSession valid"
    ELSE "checkSession invalid"

LogoutResponses == {"network", "http_error", "ok"}

(* logout(): rethrows what fetchWithCredentials throws *)
LogoutThrows(resp) == resp # "ok"

-----------------------------------------------------------------------------
(* App: handleDisconnect, App.tsx 435-453. *)

Idle == [pc |-> "idle", user |-> "", room |-> "", token |-> ""]

(* handleDisconnect() up to await AuthService.logout() *)
CallHandleDisconnect == discs' = discs + 1

(* the finally block *)
DisconnectFinally ==
    /\ svc' = LET u == Unsubscribed(svc, cleanupRef)
              IN  IF wsCur # 0 THEN [u EXCEPT ![wsCur] = SvcDisconnect(@)] ELSE u
    /\ wsCur' = 0
    /\ username' = ""
    /\ roomName' = ""
    /\ isConnected' = FALSE
    /\ messages' = <<>>
    /\ users' = <<>>

HandleDisconnect ==
    /\ mounted
    /\ discs < MaxDisc
    /\ CallHandleDisconnect
    /\ last' = Did("handleDisconnect", "")
    /\ UNCHANGED <<appVars, wsCur, cleanupRef, mounted, startup, conns, svc>>

(* A faulty variant: a failed logout leaves the teardown undone. *)
LogoutDoneBlockedByFailure(resp) ==
    /\ discs > 0
    /\ discs' = discs - 1
    /\ IF LogoutThrows(resp)
       THEN /\ UNCHANGED <<username, roomName, isConnected, messages, users, wsCur, svc>>
            /\ last' = [Did("handleDisconnect", "Logout error") EXCEPT !.threw = TRUE]
       ELSE /\ DisconnectFinally
            /\ last' = Did("handleDisconnect.finally", "")
    /\ UNCHANGED <<hasMoreHistory, pageToken, hasNewMessage, cleanupRef, mounted,
                   startup, conns>>

LogoutDone(resp) ==
    /\ discs > 0
    /\ discs' = discs - 1
    /\ DisconnectFinally
    /\ last' = Did("handleDisconnect.finally",
                   IF LogoutThrows(resp) THEN "Logout error" ELSE "")
    /\ UNCHANGED <<hasMoreHistory, pageToken, hasNewMessage, cleanupRef, mounted,
                   startup, conns>>

(* App: messageHandlerRef.current, App.tsx 59-268.  Each case sets the log, *)
(* the unseen flag, the presence list, the cursor and the disconnects in    *)
(* flight; username, roomName and isConnected are not written by it.        *)

(* A faulty variant: every appended chat message marks the log unseen. *)
HandleChatMarkingOwn(m) ==
    /\ IF m.username # "" /\ m.content # ""
       THEN /\ messages' = ChatUpdate(messages, m)
            /\ hasNewMessage' = IF ~ChatExists(messages, m) THEN TRUE
                                ELSE hasNewMessage
            /\ last' = Did("chat", IF ChatExists(messages, m)
                                   THEN "Message already exists with this ID, skipping"
                                   ELSE "Added new message")
       ELSE /\ UNCHANGED <<messages, hasNewMessage>>
            /\ last' = Did("chat", "ignored")
    /\ UNCHANGED <<users, hasMoreHistory, pageToken, discs>>

HandleChat(m) ==
    /\ IF m.username # "" /\ m.content # ""
       THEN /\ messages' = ChatUpdate(messages, m)
            /\ hasNewMessage' =
                   IF ~ChatExists(messages, m) /\ m.username # usernameRef
                   THEN TRUE ELSE hasNewMessage
            /\ last' = Did("chat", IF ChatExists(messages, m)
                                   THEN "Message already exists with this ID, skipping"
                                   ELSE "Added new message")
       ELSE /\ UNCHANGED <<messages, hasNewMessage>>
            /\ last' = Did("chat", "ignored")
    /\ UNCHANGED <<users, hasMoreHistory, pageToken, discs>>

HandleImage(m) ==
    /\ IF m.username # "" /\ m.imageData # ""
       THEN /\ messages' = ImageUpdate(messages, m)
            /\ hasNewMessage' = IF ~IsOwnMessage(m) THEN TRUE ELSE hasNewMessage
            /\ last' = Did("image", IF ImagePatches(messages, m)
                                    THEN "patched" ELSE "appended")
       ELSE /\ UNCHANGED <<messages, hasNewMessage>>
            /\ last' = Did("image", "ignored")
    /\ UNCHANGED <<users, hasMoreHistory, pageToken, discs>>

HandleReaction(m) ==
    /\ IF IsDefined(m.reactionToId)
       THEN /\ messages' = ReactionUpdate(messages, m)
            /\ last' = Did("reaction",
                           IF ~IsDefined(ReactionTarget(messages, m)) THEN "no target"
                           ELSE IF Len(FilteredReactions(m)) < Len(ValidReactions(m))
                           THEN "removed" ELSE "added")
       ELSE /\ UNCHANGED messages
            /\ last' = Did("reaction", "ignored")
    /\ UNCHANGED <<hasNewMessage, users, hasMoreHistory, pageToken, discs>>

HandleHistoryBatch(m) ==
    /\ IF IsDefined(m.history)
       THEN /\ messages' = HistoryUpdate(messages, m)
            /\ hasMoreHistory' = m.hasMore
            /\ pageToken' = m.pageToken
            /\ last' = Did("history_batch", "Displayed historical messages")
       ELSE /\ UNCHANGED <<messages, hasMoreHistory, pageToken>>
            /\ last' = Did("history_batch", "ignored")
    /\ UNCHANGED <<hasNewMessage, users, discs>>

HandleUserList(m) ==
    /\ users' = IF IsDefined(m.userList) THEN ValueOf(m.userList) ELSE users
    /\ last' = Did("user_list", IF IsDefined(m.userList) THEN "replaced" ELSE "ignored")
    /\ UNCHANGED <<messages, hasNewMessage, hasMoreHistory, pageToken, discs>>

HandleNotification(m) ==
    /\ messages' = IF m.content # ""
                   THEN Append(messages, NotificationEntry(m.content))
                   ELSE messages
    /\ last' = Did("notification", IF m.content # "" THEN "appended" ELSE "ignored")
    /\ UNCHANGED <<hasNewMessage, users, hasMoreHistory, pageToken, discs>>

(* A faulty variant: the alert only, whatever the text. *)
HandleErrorAlertOnly(m) ==
    /\ UNCHANGED discs
    /\ last' = Did("error", IF m.content # "" THEN m.content
                            ELSE "An unknown error occurred.")
    /\ UNCHANGED <<messages, hasNewMessage, users, hasMoreHistory, pageToken>>

HandleError(m) ==
    /\ IF m.content # "" /\ IsFatalError(m.content)
       THEN discs < MaxDisc /\ CallHandleDisconnect
       ELSE UNCHANGED discs
    /\ last' = Did("error", IF m.content # "" THEN m.content
                            ELSE "An unknown error occurred.")
    /\ UNCHANGED <<messages, hasNewMessage, users, hasMoreHistory, pageToken>>

HandleJoinLeave(m) ==
    /\ IF m.username # "" /\ m.room # ""
       THEN /\ messages' = Append(messages, NotificationEntry(JoinLeaveText(m)))
            /\ users' = IF IsDefined(m.userList) THEN ValueOf(m.userList) ELSE users
            /\ last' = Did(m.type, "appended")
       ELSE /\ UNCHANGED <<messages, users>>
            /\ last' = Did(m.type, "ignored")
    /\ UNCHANGED <<hasNewMessage, hasMoreHistory, pageToken, discs>>

HandleUnknown(m) ==
    /\ last' = Did(m.type, "Unknown message type received")
    /\ UNCHANGED <<messages, hasNewMessage, users, hasMoreHistory, pageToken, discs>>

MessageHandler(m) ==
    /\ CASE m.type = "chat" -> HandleChat(m)
         [] m.type = "image" -> HandleImage(m)
         [] m.type = "reaction" -> HandleReaction(m)
         [] m.type = "history_batch" -> HandleHistoryBatch(m)
         [] m.type = "user_list" -> HandleUserList(m)
         [] m.type = "notification" -> HandleNotification(m)
         [] m.type = "error" -> HandleError(m)
         [] m.type \in {"join", "leave"} -> HandleJoinLeave(m)
         [] OTHER -> HandleUnknown(m)
    /\ UNCHANGED <<username, roomName, isConnected>>

(* App: connectWebSocket, App.tsx 291-358, and the startup effect, 360-384. *)

Callers == {"startup", "ui"}
Tokens == {"", "t1"}

FreshSvc == FirstIndex({i \in DOMAIN svc : svc[i].phase = "unborn"})

(* the catch block: alert, handleDisconnect() *)
ConnectCatch(c, out) ==
    /\ discs < MaxDisc
    /\ CallHandleDisconnect
    /\ conns' = [conns EXCEPT ![c] = Idle]
    /\ last' = Did("connectWebSocket", out)
    /\ UNCHANGED <<appVars, wsCur, cleanupRef, mounted, startup, svc>>

(* ChatSetup calls onConnect(user, "", token); its button is disabled while *)
(* the call is pending.                                                     *)
Connect(user, token) ==
    /\ mounted
    /\ conns["ui"].pc = "idle"
    /\ conns' = [conns EXCEPT !["ui"] =
                    [pc |-> IF token # "" THEN "auth" ELSE "check",
                     user |-> user, room |-> "", token |-> token]]
    /\ last' = Did("connectWebSocket", "called")
    /\ UNCHANGED <<appVars, wsCur, cleanupRef, mounted, startup, discs, svc>>

ConnAuthDone(c, resp) ==
    /\ conns[c].pc = "auth"
    /\ IF AuthenticateReturns(resp)
       THEN /\ conns' = [conns EXCEPT ![c].pc = "sleep"]
            /\ last' = Did("connectWebSocket", "authenticated")
            /\ UNCHANGED <<appVars, wsCur, cleanupRef, mounted, startup, discs, svc>>
       ELSE ConnectCatch(c, "Authentication failed")

ConnSleepDone(c) ==
    /\ conns[c].pc = "sleep"
    /\ conns' = [conns EXCEPT ![c].pc = "check"]
    /\ last' = Did("connectWebSocket", "checkSession")
    /\ UNCHANGED <<appVars, wsCur, cleanupRef, mounted, startup, discs, svc>>

(* lines 311-350: the new service, its four subscriptions, the session *)
ConnCheckDone(c, resp) ==
    /\ conns[c].pc = "check"
    /\ IF ~CheckSessionThrows(resp) /\ CheckSession(resp).valid
       THEN /\ IsDefined(FreshSvc)
            /\ LET i == ValueOf(FreshSvc)
               IN  /\ svc' = [svc EXCEPT ![i] =
                                [NewService(conns[c].user, conns[c].room,
                                            conns[c].token)
                                    EXCEPT !.handlers = HandlerSets]]
                   /\ wsCur' = i
                   /\ cleanupRef' = Subscriptions(i)
            /\ username' = conns[c].user
            /\ roomName' = conns[c].room
            /\ conns' = [conns EXCEPT ![c] = Idle]
            /\ last' = Did("connectWebSocket", "constructed")
            /\ UNCHANGED <<isConnected, messages, users, hasMoreHistory, pageToken,
                           hasNewMessage, mounted, startup, discs>>
       ELSE ConnectCatch(c, IF CheckSessionThrows(resp) THEN "Fetch error"
                            ELSE "No valid session found")

(* A faulty variant: the session's valid field is not consulted. *)
StartupSessionDoneIgnoringValid(resp) ==
    /\ startup = "pending"
    /\ startup' = "done"
    /\ LET session == CheckSession(resp)
       IN  IF mounted /\ session.username # "" /\ session.room # ""
           THEN /\ conns' = [conns EXCEPT !["startup"] =
                               [pc |-> "check", user |-> session.username,
                                room |-> session.room, token |-> ""]]
                /\ last' = Did("startup", "connectWebSocket")
           ELSE /\ UNCHANGED conns
                /\ last' = Did("startup", "no session")
    /\ UNCHANGED <<appVars, wsCur, cleanupRef, mounted, discs, svc>>

(* A faulty variant: the effect's mounted flag is not consulted. *)
StartupSessionDoneWhenUnmounted(resp) ==
    /\ startup = "pending"
    /\ startup' = "done"
    /\ LET session == CheckSession(resp)
       IN  IF session.valid /\ session.username # "" /\ session.room # ""
           THEN /\ conns' = [conns EXCEPT !["startup"] =
                               [pc |-> "check", user |-> session.username,
                                room |-> session.room, token |-> ""]]
                /\ last' = Did("startup", "connectWebSocket")
           ELSE /\ UNCHANGED conns
                /\ last' = Did("startup", "no session")
    /\ UNCHANGED <<appVars, wsCur, cleanupRef, mounted, discs, svc>>

StartupSessionDone(resp) ==
    /\ startup = "pending"
    /\ startup' = "done"
    /\ LET session == CheckSession(resp)
       IN  IF /\ ~CheckSessionThrows(resp)
              /\ mounted /\ session.valid /\ session.username # "" /\ session.room # ""
           THEN /\ conns' = [conns EXCEPT !["startup"] =
                               [pc |-> "check", user |-> session.username,
                                room |-> session.room, token |-> ""]]
                /\ last' = Did("startup", "connectWebSocket")
           ELSE /\ UNCHANGED conns
                /\ last' = Did("startup", IF CheckSessionThrows(resp)
                                          THEN "Session check error" ELSE "no session")
    /\ UNCHANGED <<appVars, wsCur, cleanupRef, mounted, discs, svc>>

(* the effect's cleanup *)
Unmount ==
    /\ mounted
    /\ mounted' = FALSE
    /\ svc' = LET u == Unsubscribed(svc, cleanupRef)
              IN  IF wsCur # 0 /\ ~u[wsCur].isConnecting
                  THEN [u EXCEPT ![wsCur] = SvcDisconnect(@)] ELSE u
    /\ wsCur' = IF wsCur # 0 /\ ~svc[wsCur].isConnecting THEN 0 ELSE wsCur
    /\ last' = Did("unmount", "")
    /\ UNCHANGED <<appVars, cleanupRef, startup, conns, discs>>

(* window focus, lines 40-43 *)
Focus ==
    /\ mounted
    /\ hasNewMessage
    /\ hasNewMessage' = FALSE
    /\ last' = Did("focus", "")
    /\ UNCHANGED <<username, roomName, isConnected, messages, users, hasMoreHistory,
                   pageToken, wsCur, cleanupRef, mounted, startup, conns, discs, svc>>

(* App: the handlers subscribed at lines 313-340, run by the service's      *)
(* forEach over the matching subscriber set.                                *)

OnOpenHandler ==
    /\ isConnected' = TRUE
    /\ messages' = <<>>
    /\ UNCHANGED <<username, roomName, users, hasMoreHistory, pageToken,
                   hasNewMessage>>

OnCloseHandler ==
    /\ isConnected' = FALSE
    /\ messages' = Append(messages, NotificationEntry("Disconnected from chat."))
    /\ users' = <<>>
    /\ roomName' = ""
    /\ username' = ""
    /\ UNCHANGED <<hasMoreHistory, pageToken, hasNewMessage>>

OnErrorHandler ==
    /\ isConnected' = FALSE
    /\ UNCHANGED <<username, roomName, messages, users, hasMoreHistory, pageToken,
                   hasNewMessage>>

(* handleError() and ws.onerror: errorHandlers.forEach *)
SvcHandleError(i, op, out) ==
    IF "error" \in svc[i].handlers
    THEN OnErrorHandler /\ last' = [Did(op, out) EXCEPT !.notified = {"error"}]
    ELSE UNCHANGED appVars /\ last' = Did(op, out)

-----------------------------------------------------------------------------
(* WebSocketService.initialize(), part_001 34-53, resumed after each await. *)

SvcAuthDone(i, resp) ==
    /\ svc[i].phase = "auth"
    /\ IF AuthenticateReturns(resp)
       THEN /\ svc' = [svc EXCEPT ![i].phase = "check",
                                  ![i].done = Append(@, AuthOutcome(resp))]
            /\ last' = Did("initialize", "authenticated")
            /\ UNCHANGED appVars
       ELSE /\ svc' = [svc EXCEPT ![i].phase = "failed",
                                  ![i].done = Append(@, AuthOutcome(resp))]
            /\ SvcHandleError(i, "initialize", "Failed to initialize WebSocket")
    /\ UNCHANGED <<wsCur, cleanupRef, mounted, startup, conns, discs>>

(* A faulty variant: connect() is called whatever the session is. *)
SvcCheckDoneConnectsAnyway(i, resp) ==
    /\ svc[i].phase = "check"
    /\ svc' = [svc EXCEPT ![i] =
                  [SvcConnect(@) EXCEPT
                      !.phase = "ready",
                      !.done = Append(@, IF CheckSession(resp).valid
                                         THEN "checkSession valid"
                                         ELSE "checkSession invalid")]]
    /\ last' = Did("initialize", "Attempting WebSocket connection")
    /\ UNCHANGED <<appVars, wsCur, cleanupRef, mounted, startup, conns, discs>>

SvcCheckDone(i, resp) ==
    /\ svc[i].phase = "check"
    /\ IF ~CheckSessionThrows(resp) /\ CheckSession(resp).valid
       THEN /\ svc' = [svc EXCEPT ![i] =
                            [SvcConnect(@) EXCEPT
                                !.phase = "ready",
                                !.done = Append(@, "checkSession valid")]]
            /\ last' = Did("initialize", IF ConnectGuard(svc[i])
                                         THEN "WebSocket already connecting or connected"
                                         ELSE "Attempting WebSocket connection")
            /\ UNCHANGED appVars
       ELSE /\ svc' = [svc EXCEPT ![i].phase = "failed",
                                  ![i].done = Append(@, SessionOutcome(resp))]
            /\ SvcHandleError(i, "initialize", "Failed to initialize WebSocket")
    /\ UNCHANGED <<wsCur, cleanupRef, mounted, startup, conns, discs>>

-----------------------------------------------------------------------------
(* The socket's events, part_001 124-176. *)

(* event.data: the text of a frame, or text that JSON.parse rejects *)
Malformed == Absent
Json(frame) == Some(frame)
ParsesAsJson(data) == IsDefined(data)

SockOpen(i) ==
    /\ svc[i].sock = "CONNECTING"
    /\ svc' = [svc EXCEPT ![i].sock = "OPEN", ![i].isConnecting = FALSE]
    /\ IF "open" \in svc[i].handlers
       THEN /\ OnOpenHandler
            /\ last' = [Did("onopen", "WebSocket Connected")
                           EXCEPT !.notified = {"open"}]
       ELSE /\ UNCHANGED appVars
            /\ last' = Did("onopen", "WebSocket connection established")
    /\ UNCHANGED <<wsCur, cleanupRef, mounted, startup, conns, discs>>

(* A faulty variant: text that does not parse closes the socket. *)
SockMessageClosingOnBadFrame(i, data) ==
    /\ svc[i].sock = "OPEN"
    /\ IF ~ParsesAsJson(data)
       THEN /\ svc' = [svc EXCEPT ![i].sock = "CLOSING"]
            /\ last' = Did("onmessage", "Error parsing WebSocket message")
            /\ UNCHANGED <<appVars, discs>>
       ELSE /\ IF "message" \in svc[i].handlers
               THEN MessageHandler(ValueOf(data)) /\ Len(messages') <= MaxLog
               ELSE /\ last' = Did("onmessage", "no subscriber")
                    /\ UNCHANGED <<appVars, discs>>
            /\ UNCHANGED svc
    /\ UNCHANGED <<wsCur, cleanupRef, mounted, startup, conns>>

SockMessage(i, data) ==
    /\ svc[i].sock = "OPEN"
    /\ IF ~ParsesAsJson(data)
       THEN /\ last' = Did("onmessage", "Error parsing WebSocket message")
            /\ UNCHANGED <<appVars, discs>>
       ELSE IF "message" \in svc[i].handlers
       THEN MessageHandler(ValueOf(data)) /\ Len(messages') <= MaxLog
       ELSE /\ last' = Did("onmessage", "no subscriber")
            /\ UNCHANGED <<appVars, discs>>
    /\ UNCHANGED <<wsCur, cleanupRef, mounted, startup, conns, svc>>

(* A faulty variant: an unclean close opens a new socket. *)
SockCloseReconnecting(i, wasClean) ==
    /\ svc[i].sock \in {"CONNECTING", "OPEN", "CLOSING"}
    /\ svc' = [svc EXCEPT ![i].sock = IF wasClean THEN "CLOSED" ELSE "CONNECTING",
                          ![i].isConnecting = ~wasClean]
    /\ IF "close" \in svc[i].handlers
       THEN /\ OnCloseHandler
            /\ last' = [Did("onclose", IF wasClean THEN "WebSocket Disconnected"
                                        ELSE "WebSocket closed unexpectedly")
                           EXCEPT !.notified = {"close"}]
       ELSE /\ UNCHANGED appVars
            /\ last' = Did("onclose", "WebSocket connection closed")
    /\ UNCHANGED <<wsCur, cleanupRef, mounted, startup, conns, discs>>

SockClose(i, wasClean) ==
    /\ svc[i].sock \in {"CONNECTING", "OPEN", "CLOSING"}
    /\ svc' = [svc EXCEPT ![i].sock = "CLOSED", ![i].isConnecting = FALSE]
    /\ IF "close" \in svc[i].handlers
       THEN /\ OnCloseHandler
            /\ last' = [Did("onclose", IF wasClean THEN "WebSocket Disconnected"
                                        ELSE "WebSocket closed unexpectedly")
                           EXCEPT !.notified = {"close"}]
       ELSE /\ UNCHANGED appVars
            /\ last' = Did("onclose", "WebSocket connection closed")
    /\ UNCHANGED <<wsCur, cleanupRef, mounted, startup, conns, discs>>

SockError(i) ==
    /\ svc[i].sock \in {"CONNECTING", "OPEN"}
    /\ SvcHandleError(i, "onerror", "WebSocket error")
    /\ UNCHANGED <<wsCur, cleanupRef, mounted, startup, conns, discs, svc>>

(* App: the outbound operations, loadMoreHistory 277-289, sendMessage 386-433. *)

PageSize == 50

Outbound(t) ==
    [type |-> t, username |-> username, room |-> roomName, content |-> "",
     reactionToId |-> Absent, reaction |-> "", imageData |-> "", imageType |-> "",
     pageToken |-> "", pageSize |-> Absent]

(* A faulty variant: the frame asks for the first page again. *)
LoadMoreMessageWithoutToken ==
    [Outbound("load_more_history") EXCEPT !.pageSize = Some(PageSize)]

LoadMoreMessage ==
    [Outbound("load_more_history") EXCEPT !.pageToken = pageToken,
                                          !.pageSize = Some(PageSize)]

(* A faulty variant: hasMoreHistory is not consulted. *)
LoadMoreIgnoresHasMore == wsCur = 0 \/ pageToken = ""

LoadMoreReturnsEarly == wsCur = 0 \/ ~hasMoreHistory \/ pageToken = ""

LoadMoreHistory ==
    /\ mounted
    /\ last' = IF LoadMoreReturnsEarly THEN Did("loadMoreHistory", "return")
               ELSE SendResult("loadMoreHistory", svc[wsCur], LoadMoreMessage)
    /\ UNCHANGED <<appVars, wsCur, cleanupRef, mounted, startup, conns, discs, svc>>

(* the optional second argument of sendMessage *)
NoExtra == [type |-> "none", id |-> Absent, reaction |-> "", imageData |-> ""]
SendExtras ==
    {NoExtra}
    \cup {[NoExtra EXCEPT !.type = "image", !.imageData = "X"]}
    \cup {[NoExtra EXCEPT !.type = "reaction", !.id = Some(i), !.reaction = "+"] :
             i \in Ids}
    \cup {[NoExtra EXCEPT !.type = "reply", !.id = Some(i)] : i \in Ids}

ReactionTargetMissing(x) ==
    x.type = "reaction" /\ ~\E k \in 1 .. Len(messages) : messages[k].id = x.id

OutboundMessage(content, x) ==
    IF x.type = "reaction"
    THEN [Outbound("reaction") EXCEPT !.content = content, !.reactionToId = x.id,
                                      !.reaction = x.reaction]
    ELSE IF x.type = "image"
    THEN [Outbound("image") EXCEPT !.content = content, !.imageData = x.imageData,
                                   !.imageType = "image/gif"]
    ELSE [Outbound("chat") EXCEPT !.content = content]

SendMessage(content, x) ==
    /\ mounted
    /\ last' = IF wsCur = 0 THEN Did("sendMessage", "return")
               ELSE IF ReactionTargetMissing(x)
               THEN Did("sendMessage", "Cannot react to message: Message not found")
               ELSE SendResult("sendMessage", svc[wsCur], OutboundMessage(content, x))
    /\ UNCHANGED <<appVars, wsCur, cleanupRef, mounted, startup, conns, discs, svc>>

(* The whole client: startup, connect, the sockets' events, the outbound    *)
(* operations, disconnect.  The server sends a few representative frames.   *)
(* The UI offers ChatSetup (connect) only while isConnected is false and    *)
(* ChatWindow and "Leave Room" only while it is true, App.tsx 505, 539-549. *)

ChatFrame(id, user, content) ==
    [Frame("chat") EXCEPT !.id = id, !.username = user, !.content = content,
                          !.timestamp = "t0"]

HistoryBatch(history, hasMore, token) ==
    [Frame("history_batch") EXCEPT !.history = history, !.hasMore = hasMore,
                                   !.pageToken = token]

ErrorFrame(content) == [Frame("error") EXCEPT !.content = content]

CoreFrames ==
    {ChatFrame(Some(1), "bob", "hi"),
     HistoryBatch(Some(<<>>), TRUE, "p1"),
     ErrorFrame("Authentication failed"),
     ErrorFrame("boom")}

CoreData == {Malformed} \cup {Json(f) : f \in CoreFrames}

Init ==
    /\ username = ""
    /\ roomName = ""
    /\ isConnected = FALSE
    /\ messages = <<>>
    /\ users = <<>>
    /\ hasMoreHistory = FALSE
    /\ pageToken = ""
    /\ hasNewMessage = FALSE
    /\ wsCur = 0
    /\ cleanupRef = {}
    /\ mounted = TRUE
    /\ startup = "pending"
    /\ conns = [c \in Callers |-> Idle]
    /\ discs = 0
    /\ svc = [i \in 1 .. MaxSvc |-> NoSvc]
    /\ last = Did("init", "")

Next ==
    \/ \E resp \in SessionResponses : StartupSessionDone(resp)
    \/ \E token \in Tokens : ~isConnected /\ Connect(LocalUser, token)
    \/ \E c \in Callers, resp \in AuthResponses : ConnAuthDone(c, resp)
    \/ \E c \in Callers : ConnSleepDone(c)
    \/ \E c \in Callers, resp \in SessionResponses : ConnCheckDone(c, resp)
    \/ \E i \in DOMAIN svc, resp \in AuthResponses : SvcAuthDone(i, resp)
    \/ \E i \in DOMAIN svc, resp \in SessionResponses : SvcCheckDone(i, resp)
    \/ \E i \in DOMAIN svc : SockOpen(i)
    \/ \E i \in DOMAIN svc, data \in CoreData : SockMessage(i, data)
    \/ \E i \in DOMAIN svc, wasClean \in BOOLEAN : SockClose(i, wasClean)
    \/ \E i \in DOMAIN svc : SockError(i)
    \/ isConnected /\ LoadMoreHistory
    \/ \E x \in SendExtras : isConnected /\ SendMessage("hi", x)
    \/ isConnected /\ HandleDisconnect
    \/ \E resp \in LogoutResponses : LogoutDone(resp)
    \/ Unmount
    \/ Focus

Spec == Init /\ [][Next]_vars

-----------------------------------------------------------------------------
(* One connection, open: alice has connected from ChatSetup without a token *)
(* and the socket of her service has just opened.                           *)

OpenService ==
    [NewService(LocalUser, "", "") EXCEPT !.phase = "ready", !.sock = "OPEN",
                                          !.ws = TRUE, !.handlers = HandlerSets,
                                          !.done = <<"checkSession valid">>]

InitOpen ==
    /\ username = LocalUser
    /\ roomName = ""
    /\ isConnected = TRUE
    /\ messages = <<>>
    /\ users = <<>>
    /\ hasMoreHistory = FALSE
    /\ pageToken = ""
    /\ hasNewMessage = FALSE
    /\ wsCur = 1
    /\ cleanupRef = Subscriptions(1)
    /\ mounted = TRUE
    /\ startup = "done"
    /\ conns = [c \in Callers |-> Idle]
    /\ discs = 0
    /\ svc = [i \in 1 .. MaxSvc |-> IF i = 1 THEN OpenService ELSE NoSvc]
    /\ last = [Did("onopen", "WebSocket Connected") EXCEPT !.notified = {"open"}]

(* The frames of the chat log: chat frames with and without id, sender and  *)
(* content, and history batches of bob's chat messages.                     *)

ChatFrames ==
    {ChatFrame(id, user, content) :
        id \in OptIds, user \in {""} \cup Names, content \in {"", "hi"}}

HistoryChatItems ==
    {[HistItem("chat") EXCEPT !.id = id, !.username = "bob", !.content = "hi",
                              !.timestamp = "t0"] : id \in {Some(i) : i \in Ids}}

HistoryChatBatches ==
    {HistoryBatch(h, FALSE, "") :
        h \in {Absent} \cup {Some(q) : q \in SeqsUpTo(HistoryChatItems, MaxHist)}}

ReceiveChat == \E f \in ChatFrames : SockMessage(1, Json(f))

ReceiveHistoryChat == \E f \in HistoryChatBatches : SockMessage(1, Json(f))

NextChat == ReceiveChat \/ ReceiveHistoryChat \/ Focus

SpecChat == InitOpen /\ [][NextChat]_vars

(* The pagination cursor: history batches without a history array, with an  *)
(* empty one and with one item, under every cursor; loadMoreHistory; and    *)
(* the end of the connection by "Leave Room" or by the socket closing.      *)

PageTokens == {"", "p1"}

CursorBatches ==
    {HistoryBatch(h, more, token) :
        h \in {Absent} \cup {Some(q) : q \in SeqsUpTo(HistoryChatItems, 1)},
        more \in BOOLEAN, token \in PageTokens}

ReceiveCursor == \E f \in CursorBatches : SockMessage(1, Json(f))

NextCursor ==
    \/ ReceiveCursor
    \/ LoadMoreHistory
    \/ isConnected /\ HandleDisconnect
    \/ \E resp \in LogoutResponses : LogoutDone(resp)
    \/ \E wasClean \in BOOLEAN : SockClose(1, wasClean)

SpecCursor == InitOpen /\ [][NextCursor]_vars

(* The frames of images: image frames with and without id, sender and data, *)
(* and history batches of alice's images.                                   *)

ImageFrame(id, user, data) ==
    [Frame("image") EXCEPT !.id = id, !.username = user, !.imageData = data,
                           !.imageType = IF data = "" THEN "" ELSE "image/gif",
                           !.timestamp = "t0"]

ImageFrames ==
    {ImageFrame(id, user, data) :
        id \in OptIds, user \in {""} \cup Names, data \in {"", "X"}}

HistoryImageItems ==
    {[HistItem("image") EXCEPT !.id = id, !.username = LocalUser,
                               !.imageData = "X", !.imageType = "image/gif",
                               !.timestamp = "t0"] : id \in OptIds}

HistoryImageBatches ==
    {HistoryBatch(Some(q), FALSE, "") : q \in SeqsUpTo(HistoryImageItems, MaxHist)}

ReceiveImage == \E f \in ImageFrames : SockMessage(1, Json(f))

ReceiveHistoryImage == \E f \in HistoryImageBatches : SockMessage(1, Json(f))

NextImage == ReceiveImage \/ ReceiveHistoryImage \/ Focus

SpecImage == InitOpen /\ [][NextImage]_vars

(* The frames of reactions: chat messages of bob to react to, and reaction  *)
(* frames embedding a reaction history of valid and invalid items.          *)

ReactionItem(user, reaction, stamp) ==
    [HistItem("reaction") EXCEPT !.username = user, !.reaction = reaction,
                                 !.timestamp = stamp]

ReactionItems ==
    {ReactionItem("alice", "+", "t1"), ReactionItem("bob", "-", "t2"),
     ReactionItem("bob", "+", "")}

ReactionTargetIds == {Some(1), Some(MaxId)}

ReactionFrames ==
    {[Frame("reaction") EXCEPT !.reactionToId = id, !.username = user,
                               !.reaction = r, !.history = h] :
        id \in {Absent} \cup ReactionTargetIds, user \in Names, r \in Reactions,
        h \in {Absent} \cup {Some(q) : q \in SeqsUpTo(ReactionItems, MaxHist)}}

ReactionTargets == {ChatFrame(id, "bob", "hi") : id \in ReactionTargetIds}

ReceiveTarget == \E f \in ReactionTargets : SockMessage(1, Json(f))

ReceiveReaction == \E f \in ReactionFrames : SockMessage(1, Json(f))

NextReact == ReceiveTarget \/ ReceiveReaction

SpecReact == InitOpen /\ [][NextReact]_vars

-----------------------------------------------------------------------------
(* Properties of the message log. *)

HasId(log, id) == \E k \in 1 .. Len(log) : log[k].id = id

(* C1: the log never holds two entries that share a defined id. *)
C1_NoDuplicateIds ==
    \A j, k \in 1 .. Len(messages) :
        j < k /\ IsDefined(messages[j].id) => messages[j].id # messages[k].id

(* C2 as stated: every chat frame whose id is defined and not yet in the    *)
(* log adds exactly one entry with that id, after the entries already there. *)
C2_EveryChatFrameAppends ==
    [][\A f \in ChatFrames :
          IsDefined(f.id) /\ ~HasId(messages, f.id) /\ SockMessage(1, Json(f))
          => /\ Len(messages') = Len(messages) + 1
             /\ SubSeq(messages', 1, Len(messages)) = messages
             /\ messages'[Len(messages')].id = f.id]_vars

(* C2 amended: a chat frame with a non-empty username and content whose id  *)
(* is defined and not yet in the log adds exactly one chat entry with that  *)
(* id, sender and content, after the entries already there.                 *)
C2_ChatFramesAppendInReceiptOrder ==
    [][\A f \in ChatFrames :
          /\ f.username # "" /\ f.content # ""
          /\ IsDefined(f.id) /\ ~HasId(messages, f.id)
          /\ last'.op = "chat" /\ SockMessage(1, Json(f))
          => /\ Len(messages') = Len(messages) + 1
             /\ SubSeq(messages', 1, Len(messages)) = messages
             /\ messages'[Len(messages')].id = f.id
             /\ messages'[Len(messages')].type = "chat"
             /\ messages'[Len(messages')].sender = f.username
             /\ messages'[Len(messages')].content = f.content
             /\ Cardinality({k \in 1 .. Len(messages') : messages'[k].id = f.id}) = 1]_vars

C2_Witness ==
    /\ last.op = "chat" /\ last.out = "Added new message"
    /\ Len(messages) = 3
    /\ \A k \in 1 .. 3 : messages[k].type = "chat" /\ messages[k].timestamp = "t0"
    /\ messages[1].id = Some(2) /\ messages[2].id = Absent /\ messages[3].id = Some(1)

(* C3: a chat frame whose id is that of an entry of the log changes neither *)
(* the log nor the unseen-message flag.                                     *)
C3_RedeliveryIsNoOp ==
    [][\A f \in ChatFrames :
          /\ IsDefined(f.id) /\ HasId(messages, f.id)
          /\ last'.op = "chat" /\ SockMessage(1, Json(f))
          => messages' = messages /\ hasNewMessage' = hasNewMessage]_vars

C3_Witness ==
    /\ last.op = "chat"
    /\ last.out = "Message already exists with this ID, skipping"
    /\ Len(messages) > 0
    /\ \A k \in 1 .. Len(messages) : IsDefined(messages[k].id)
    /\ ~hasNewMessage

(* C5: a history batch [h1..hn] applied to the log [a1..am] gives           *)
(* [h1..hn, a1..am], each hk mapped to its entry.                           *)
C5_HistoryIsPrepended ==
    [][\A f \in HistoryChatBatches :
          IsDefined(f.history) /\ last'.op = "history_batch"
          /\ SockMessage(1, Json(f))
          => LET h == ValueOf(f.history)
             IN  /\ Len(messages') = Len(h) + Len(messages)
                 /\ \A k \in 1 .. Len(h) : messages'[k] = HistoryEntry(h[k])
                 /\ \A k \in 1 .. Len(messages) : messages'[Len(h) + k] = messages[k]]_vars

C5_Witness ==
    /\ last.op = "history_batch" /\ last.out = "Displayed historical messages"
    /\ Len(messages) = 3
    /\ messages[1].sender = "bob" /\ messages[1].id = Some(2)
    /\ messages[2].sender = "bob" /\ messages[2].id = Some(1)
    /\ messages[3].sender = "alice"

(* C4: a reaction frame for a (username, value) pair that the target entry  *)
(* does not hold leaves the target holding that pair (and the same frame    *)
(* applied again would then remove it).                                     *)
HoldsPair(entry, user, value) ==
    /\ IsDefined(entry.reactions)
    /\ \E k \in 1 .. Len(ValueOf(entry.reactions)) :
          /\ ValueOf(entry.reactions)[k].username = user
          /\ ValueOf(entry.reactions)[k].reaction = value

C4_FirstReactionFrameAddsPair ==
    [][\A f \in ReactionFrames :
          /\ IsDefined(ReactionTarget(messages, f))
          /\ ~HoldsPair(messages[ValueOf(ReactionTarget(messages, f))],
                        f.username, f.reaction)
          /\ SockMessage(1, Json(f))
          => HoldsPair(messages'[ValueOf(ReactionTarget(messages, f))],
                       f.username, f.reaction)]_vars

(* C6: after every history_batch frame the cursor is the frame's hasMore    *)
(* and pageToken.                                                           *)
C6_CursorIsTheFramesCursor ==
    [][\A f \in CursorBatches :
          SockMessage(1, Json(f))
          => hasMoreHistory' = f.hasMore /\ pageToken' = f.pageToken]_vars

(* C7: loadMoreHistory transmits no frame when hasMoreHistory is false,     *)
(* whatever pageToken is, and none when pageToken is empty.                 *)
C7_NoCursorNoFrame ==
    [][LoadMoreHistory /\ (~hasMoreHistory \/ pageToken = "")
          => last'.sent = Absent /\ ~last'.threw /\ last'.out = "return"]_vars

C7_Witness ==
    /\ last.op = "loadMoreHistory" /\ last.out = "return"
    /\ ~hasMoreHistory /\ pageToken = "p1"
    /\ wsCur = 1 /\ CanSend(svc[wsCur])

(* C8: an image frame of the local user whose imageData is that of an       *)
(* id-less image entry of the local user sets the id of such an entry to    *)
(* the frame's id and changes nothing else in the log.                      *)
IsPendingImage(entry, f) ==
    /\ entry.type = "image" /\ entry.sender = username
    /\ entry.imageData = f.imageData /\ entry.id = Absent

C8_EchoPatchesPendingImage ==
    [][\A f \in ImageFrames :
          /\ f.username = username /\ f.imageData # ""
          /\ \E k \in 1 .. Len(messages) : IsPendingImage(messages[k], f)
          /\ SockMessage(1, Json(f))
          => \E k \in 1 .. Len(messages) :
                /\ IsPendingImage(messages[k], f)
                /\ messages' = [messages EXCEPT ![k].id = f.id]]_vars

-----------------------------------------------------------------------------
(* One service from its construction on: connectWebSocket has just built    *)
(* service 1 for alice, with or without a token, and subscribed its four    *)
(* handlers.  sendMessage and loadMoreHistory are also called from the      *)
(* FileReader and timer callbacks of ChatWindow, which run whatever         *)
(* isConnected has become.                                                  *)

InitSvc ==
    /\ username = LocalUser
    /\ roomName = ""
    /\ isConnected = FALSE
    /\ messages = <<>>
    /\ users = <<>>
    /\ hasMoreHistory = FALSE
    /\ pageToken = ""
    /\ hasNewMessage = FALSE
    /\ wsCur = 1
    /\ cleanupRef = Subscriptions(1)
    /\ mounted = TRUE
    /\ startup = "done"
    /\ conns = [c \in Callers |-> Idle]
    /\ discs = 0
    /\ \E token \in Tokens :
          svc = [i \in 1 .. MaxSvc |->
                    IF i = 1
                    THEN [NewService(LocalUser, "", token) EXCEPT
                             !.handlers = HandlerSets]
                    ELSE NoSvc]
    /\ last = Did("connectWebSocket", "constructed")

NextSvc ==
    \/ \E resp \in AuthResponses : SvcAuthDone(1, resp)
    \/ \E resp \in SessionResponses : SvcCheckDone(1, resp)
    \/ SockOpen(1)
    \/ \E data \in CoreData : SockMessage(1, data)
    \/ \E wasClean \in BOOLEAN : SockClose(1, wasClean)
    \/ SockError(1)
    \/ LoadMoreHistory
    \/ \E x \in SendExtras : SendMessage("hi", x)
    \/ HandleDisconnect
    \/ \E resp \in LogoutResponses : LogoutDone(resp)
    \/ Unmount

SpecSvc == InitSvc /\ [][NextSvc]_vars

(* C9: a call of the service's sendMessage transmits the frame when the     *)
(* service holds a socket in state OPEN, and otherwise (no socket yet, none *)
(* any more, connecting, closing, closed) throws and transmits nothing.     *)
SocketIsOpen(s) == s.ws /\ s.sock = "OPEN"

C9_SendOnlyWhenOpen ==
    [][/\ \A x \in SendExtras :
             SendMessage("hi", x) /\ wsCur # 0 /\ ~ReactionTargetMissing(x)
             => IF SocketIsOpen(svc[wsCur])
                THEN last'.sent = Some(OutboundMessage("hi", x)) /\ ~last'.threw
                ELSE last'.sent = Absent /\ last'.threw
       /\ LoadMoreHistory /\ ~LoadMoreReturnsEarly
             => IF SocketIsOpen(svc[wsCur])
                THEN last'.sent = Some(LoadMoreMessage) /\ ~last'.threw
                ELSE last'.sent = Absent /\ last'.threw]_vars

C9_Witness ==
    /\ last.op = "sendMessage" /\ last.threw /\ last.sent = Absent
    /\ wsCur = 1 /\ svc[1].ws /\ svc[1].sock = "CONNECTING"

(* C10: an instance has a socket only if the last await of its initialize   *)
(* was a checkSession that returned a valid session; with a token,          *)
(* checkSession is called only once authenticate has returned; once         *)
(* authenticate threw or the session was invalid the instance has no socket *)
(* and never gets one, and the step that fails runs the subscribed error    *)
(* handler.                                                                 *)
InitializeFailed(s) ==
    \E k \in 1 .. Len(s.done) :
        s.done[k] \in {"authenticate threw",
                        "authenticate threw Authentication failed",
                        "checkSession threw",
                        "checkSession caught", "checkSession invalid"}

C10_SocketOnlyAfterValidSession ==
    /\ [](\A i \in DOMAIN svc :
            /\ svc[i].sock # "none"
                  => /\ Len(svc[i].done) > 0
                     /\ svc[i].done[Len(svc[i].done)] = "checkSession valid"
            /\ svc[i].token # "" /\ svc[i].phase \in {"check", "ready"}
                  => /\ Len(svc[i].done) > 0
                     /\ svc[i].done[1] = "authenticate returned"
            /\ InitializeFailed(svc[i])
                  => svc[i].sock = "none" /\ ~svc[i].ws)
    /\ [][\A i \in DOMAIN svc :
            ~InitializeFailed(svc[i]) /\ InitializeFailed(svc'[i])
            => /\ svc'[i].phase = "failed"
               /\ "error" \in svc[i].handlers
                     => last'.notified = {"error"} /\ ~isConnected']_vars

C10_Witness ==
    /\ svc[1].token = "t1"
    /\ svc[1].done = <<"authenticate returned", "checkSession valid">>
    /\ svc[1].sock = "CONNECTING" /\ svc[1].ws
    /\ last.out = "Attempting WebSocket connection"

-----------------------------------------------------------------------------
(* Connecting from ChatSetup: the startup check has found no session, and   *)
(* the user connects, with or without a token, as often as ChatSetup is     *)
(* shown.  The server sends a chat message or a fatal error.                *)

LifeData ==
    {Json(ChatFrame(Some(1), "bob", "hi")), Json(ErrorFrame("Authentication failed"))}

InitIdle ==
    /\ username = ""
    /\ roomName = ""
    /\ isConnected = FALSE
    /\ messages = <<>>
    /\ users = <<>>
    /\ hasMoreHistory = FALSE
    /\ pageToken = ""
    /\ hasNewMessage = FALSE
    /\ wsCur = 0
    /\ cleanupRef = {}
    /\ mounted = TRUE
    /\ startup = "done"
    /\ conns = [c \in Callers |-> Idle]
    /\ discs = 0
    /\ svc = [i \in 1 .. MaxSvc |-> NoSvc]
    /\ last = Did("startup", "no session")

NextLife ==
    \/ \E token \in Tokens : ~isConnected /\ Connect(LocalUser, token)
    \/ \E resp \in AuthResponses : ConnAuthDone("ui", resp)
    \/ ConnSleepDone("ui")
    \/ \E resp \in SessionResponses : ConnCheckDone("ui", resp)
    \/ \E i \in DOMAIN svc, resp \in AuthResponses : SvcAuthDone(i, resp)
    \/ \E i \in DOMAIN svc, resp \in SessionResponses : SvcCheckDone(i, resp)
    \/ \E i \in DOMAIN svc : SockOpen(i)
    \/ \E i \in DOMAIN svc, data \in LifeData : SockMessage(i, data)
    \/ \E i \in DOMAIN svc, wasClean \in BOOLEAN : SockClose(i, wasClean)
    \/ \E i \in DOMAIN svc : SockError(i)
    \/ isConnected /\ HandleDisconnect
    \/ \E resp \in LogoutResponses : LogoutDone(resp)

SpecLife == InitIdle /\ [][NextLife]_vars

Constructed(i) == svc[i].phase = "unborn" /\ svc'[i].phase # "unborn"

(* C11: when connectWebSocket constructs a service, no other service has a  *)
(* subscription left.                                                       *)
C11_OldSubscriptionsRemovedFirst ==
    [][\A i \in DOMAIN svc :
          Constructed(i) => \A j \in DOMAIN svc \ {i} : svc[j].handlers = {}]_vars

SessionEmpty == username = "" /\ roomName = "" /\ ~isConnected

(* C12: the session is empty (no username, no room, not connected) when a   *)
(* handleDisconnect has completed, when the handshake of a service has      *)
(* failed on authenticate or checkSession, and when a socket has closed     *)
(* uncleanly, the controller being subscribed.                              *)
C12_SessionResetOnFailure ==
    [][/\ (\E resp \in LogoutResponses : LogoutDone(resp)) => SessionEmpty'
       /\ \A i \in DOMAIN svc :
             /\ "close" \in svc[i].handlers /\ SockClose(i, FALSE) => SessionEmpty'
             /\ /\ "error" \in svc[i].handlers
                /\ ~InitializeFailed(svc[i]) /\ InitializeFailed(svc'[i])
                => SessionEmpty']_vars

TornDown ==
    wsCur = 0 /\ SessionEmpty /\ messages = <<>> /\ users = <<>>

(* C13: whatever logout answers, a handleDisconnect that completes leaves   *)
(* no service, an empty session, an empty log and an empty presence list    *)
(* and throws nothing; completed in that state it changes none of them, nor *)
(* any service.                                                             *)
C13_DisconnectIdempotent ==
    [][\A resp \in LogoutResponses :
          LogoutDone(resp)
          => /\ TornDown' /\ ~last'.threw
             /\ TornDown => UNCHANGED <<appVars, wsCur, cleanupRef, svc>>]_vars

C13_Witness ==
    /\ last.op = "handleDisconnect.finally" /\ last.out = "Logout error"
    /\ TornDown
    /\ svc[1].sock = "CLOSING" /\ ~svc[1].ws /\ svc[1].handlers = {}

(* C14: sendMessage called for a reaction or for a reply whose target id is *)
(* the id of no entry of the log transmits no frame.                        *)
C14_TargetValidatedBeforeSend ==
    [][\A x \in SendExtras :
          /\ x.type \in {"reaction", "reply"} /\ ~HasId(messages, x.id)
          /\ SendMessage("hi", x)
          => last'.sent = Absent]_vars

(* C15: when the socket of a service closes, cleanly or not, the service    *)
(* has no subscriber left in any of its four sets and no socket reference.  *)
C15_CloseClearsSubscribers ==
    [][\A i \in DOMAIN svc, wasClean \in BOOLEAN :
          SockClose(i, wasClean) => svc'[i].handlers = {} /\ ~svc'[i].ws]_vars

(* C16: a frame that is not JSON runs no subscriber and changes neither the *)
(* subscriber sets nor the socket, which stays open; the well-formed frame  *)
(* that comes next is handed to the message subscriber.                     *)
C16_MalformedFrameIsDropped ==
    [][\A i \in DOMAIN svc :
          /\ SockMessage(i, Malformed)
                => /\ UNCHANGED <<appVars, discs, wsCur, cleanupRef, svc>>
                   /\ svc'[i].sock = "OPEN"
                   /\ last' = Did("onmessage", "Error parsing WebSocket message")
          /\ /\ last = Did("onmessage", "Error parsing WebSocket message")
             /\ "message" \in svc[i].handlers
             => \A f \in CoreFrames : SockMessage(i, Json(f)) => last'.op = f.type]_vars

C16_Witness ==
    /\ last = Did("onmessage", "Error parsing WebSocket message")
    /\ svc[1].sock = "OPEN" /\ svc[1].ws /\ svc[1].handlers = HandlerSets
    /\ isConnected /\ Len(messages) = 1 /\ messages[1].id = Some(1)

(* C17: when the fetch of /session is rejected, answered with a status that *)
(* is not 2xx, or answered with a body that does not parse, checkSession    *)
(* returns {valid: false} to its caller and throws nothing.                 *)
C17_CheckSessionNeverThrows ==
    [][\A i \in DOMAIN svc, resp \in SessionResponses :
          resp.status \in {"network", "http_error", "bad_json"} /\ SvcCheckDone(i, resp)
          => /\ svc'[i].done = Append(svc[i].done, "checkSession caught")
             /\ ~CheckSessionThrows(resp)
             /\ CheckSession(resp) = [valid |-> FALSE, username |-> "", room |-> ""]
             /\ svc'[i].phase = "failed" /\ svc'[i].sock = "none"]_vars

C17_Witness ==
    /\ svc[1].done = <<"authenticate returned", "checkSession caught">>
    /\ svc[1].phase = "failed"
    /\ last.op = "initialize" /\ last.notified = {"error"}

(* C18 as stated: authenticate returns a result to its caller when the      *)
(* server answers success = false, and throws when the fetch is rejected.   *)
C18_BadCredentialsAreReturned ==
    [][\A i \in DOMAIN svc, resp \in AuthResponses :
          SvcAuthDone(i, resp)
          => /\ resp = "denied"
                   => svc'[i].done = Append(svc[i].done, "authenticate returned")
             /\ resp = "network"
                   => svc'[i].done = Append(svc[i].done, "authenticate threw")]_vars

(* C18 amended: authenticate returns only a body with success = true; bad   *)
(* credentials, answered with success = false or with a status that is not  *)
(* 2xx, are thrown, as a rejected fetch and an unparsable body are, and the *)
(* caller's initialize fails.                                               *)
C18_AuthenticateThrowsUnlessSuccess ==
    [][\A i \in DOMAIN svc, resp \in AuthResponses :
          SvcAuthDone(i, resp)
          => /\ svc'[i].done =
                   Append(svc[i].done,
                          CASE resp = "success" -> "authenticate returned"
                            [] resp = "denied" -> "authenticate threw Authentication failed"
                            [] OTHER -> "authenticate threw")
             /\ svc'[i].phase = IF resp = "success" THEN "check" ELSE "failed"]_vars

C18_Witness ==
    /\ svc[1].done = <<"authenticate threw Authentication failed">>
    /\ svc[1].token = "t1" /\ svc[1].phase = "failed" /\ svc[1].sock = "none"
    /\ last.op = "initialize" /\ last.notified = {"error"}

(* C19: alice connects with a token, authenticate and checkSession succeed  *)
(* and the socket opens: the open handler leaves her connected with an      *)
(* empty log, and the chat frame {id 1, bob, hi} received on that log       *)
(* leaves exactly one chat entry, id 1 from bob saying hi, and the unseen   *)
(* flag set.                                                                *)
BobSaysHi ==
    [type |-> "chat", id |-> {1}, sender |-> "bob", content |-> "hi",
     timestamp |-> "t0", imageData |-> "", imageType |-> "", reactions |-> {}]

C19_ConnectThenFirstChat ==
    [][\A i \in DOMAIN svc :
          /\ "open" \in svc[i].handlers /\ SockOpen(i)
                => isConnected' /\ messages' = <<>> /\ username' = username
          /\ /\ "message" \in svc[i].handlers
             /\ username = LocalUser /\ messages = <<>>
             /\ SockMessage(i, Json(ChatFrame(Some(1), "bob", "hi")))
             => messages' = <<BobSaysHi>> /\ hasNewMessage']_vars

C19_Witness ==
    /\ last.op = "chat" /\ last.out = "Added new message"
    /\ username = LocalUser /\ isConnected
    /\ messages = <<BobSaysHi>> /\ hasNewMessage
    /\ wsCur = 1 /\ svc[1].token = "t1" /\ svc[1].sock = "OPEN"
    /\ svc[1].done = <<"authenticate returned", "checkSession valid">>
    /\ svc[2].phase = "unborn"

(* C20: there is no automatic reconnection.  A service is constructed only  *)
(* by the step that ends a connectWebSocket call, a socket is constructed   *)
(* only by the initialize() of such a service and only once, and a socket   *)
(* close or error constructs neither and starts no connectWebSocket call.   *)
SocketConstructed(i) ==
    svc[i].sock # "CONNECTING" /\ svc'[i].sock = "CONNECTING"

C20_NoAutomaticReconnection ==
    [][/\ \A i \in DOMAIN svc :
            /\ Constructed(i)
                 => \E c \in DOMAIN conns :
                        conns[c].pc = "check" /\ conns'[c].pc = "idle"
            /\ SocketConstructed(i)
                 => svc[i].sock = "none" /\ svc[i].phase = "check"
       /\ \A i \in DOMAIN svc :
            (SockError(i) \/ \E wasClean \in BOOLEAN : SockClose(i, wasClean))
                 => /\ conns' = conns
                    /\ \A j \in DOMAIN svc :
                          ~Constructed(j) /\ ~SocketConstructed(j)]_vars

C20_Witness ==
    /\ last.op = "onclose" /\ last.out = "WebSocket closed unexpectedly"
    /\ svc[1].sock = "CLOSED" /\ ~svc[1].isConnecting
    /\ svc[2].phase = "unborn"
    /\ conns["ui"].pc = "idle"
    /\ ~isConnected

-----------------------------------------------------------------------------
(* The launch: the startup effect's checkSession is in flight; what follows *)
(* is the connection it starts, if any, the events of that connection's     *)
(* socket, "Leave Room" and the unmounting of the component.                *)

NextStartup ==
    \/ \E resp \in SessionResponses : StartupSessionDone(resp)
    \/ \E resp \in SessionResponses : ConnCheckDone("startup", resp)
    \/ \E i \in DOMAIN svc, resp \in SessionResponses : SvcCheckDone(i, resp)
    \/ \E i \in DOMAIN svc : SockOpen(i)
    \/ \E i \in DOMAIN svc, data \in LifeData : SockMessage(i, data)
    \/ \E i \in DOMAIN svc, wasClean \in BOOLEAN : SockClose(i, wasClean)
    \/ \E i \in DOMAIN svc : SockError(i)
    \/ isConnected /\ HandleDisconnect
    \/ \E resp \in LogoutResponses : LogoutDone(resp)
    \/ Unmount

SpecStartup == Init /\ [][NextStartup]_vars

(* C21: when the launch-time checkSession of the mounted controller returns *)
(* a valid session with a username and a room, connectWebSocket is called   *)
(* for that username and room without a token; otherwise no call is made    *)
(* and no service is built.  The call so started never awaits authenticate, *)
(* nor does the service it constructs.                                      *)
C21_StartupResumesSession ==
    /\ [][\A resp \in SessionResponses :
            StartupSessionDone(resp)
            => IF /\ mounted /\ resp.status = "ok" /\ resp.body.valid
                  /\ resp.body.username # "" /\ resp.body.room # ""
               THEN /\ conns'["startup"] =
                          [pc |-> "check", user |-> resp.body.username,
                           room |-> resp.body.room, token |-> ""]
                    /\ svc' = svc
               ELSE conns' = conns /\ svc' = svc]_vars
    /\ [][\A i \in DOMAIN svc :
            Constructed(i)
            => /\ svc'[i].user = conns["startup"].user
               /\ svc'[i].room = conns["startup"].room
               /\ svc'[i].token = "" /\ svc'[i].phase = "check"]_vars
    /\ [](/\ conns["startup"].pc \in {"idle", "check"}
          /\ \A i \in DOMAIN svc :
                /\ svc[i].phase # "auth"
                /\ \A k \in 1 .. Len(svc[i].done) :
                      svc[i].done[k] \in {"checkSession valid", "checkSession caught",
                                          "checkSession invalid"})

C21_Witness ==
    /\ last = Did("connectWebSocket", "constructed")
    /\ startup = "done" /\ conns["startup"].pc = "idle"
    /\ username = LocalUser /\ roomName = "r"
    /\ wsCur = 1 /\ svc[1].user = LocalUser /\ svc[1].room = "r"
    /\ svc[1].token = "" /\ svc[1].phase = "check" /\ svc[1].done = <<>>

-----------------------------------------------------------------------------
(* The frames of presence and of notifications: user_list, join, leave,     *)
(* notification and chat frames, with and without a username, a room, a     *)
(* content and a userList.                                                  *)

PresenceLists == {<<>>, <<"alice">>, <<"alice", "bob">>}

PresenceFrames ==
    {[Frame(t) EXCEPT !.id = IF t = "chat" THEN Some(1) ELSE Absent,
                      !.username = user, !.room = room, !.content = content,
                      !.userList = list, !.timestamp = "t0"] :
        t \in {"user_list", "join", "leave", "notification", "chat"},
        user \in {"", "bob"}, room \in {"", "r"}, content \in {"", "hi"},
        list \in {Absent} \cup {Some(q) : q \in PresenceLists}}

ReceivePresence == \E f \in PresenceFrames : SockMessage(1, Json(f))

NextPresence == ReceivePresence \/ Focus

SpecPresence == InitOpen /\ [][NextPresence]_vars

(* C22: every frame that carries a userList, whatever its type, leaves the  *)
(* presence list equal to that userList.                                    *)
C22_UserListAlwaysReplacesPresence ==
    [][\A f \in PresenceFrames :
          IsDefined(f.userList) /\ SockMessage(1, Json(f))
          => users' = ValueOf(f.userList)]_vars


(* C23: an entry of the log whose id is defined keeps that id whatever      *)
(* image frame is received, and keeps it, further down the log, when a      *)
(* history batch is put in front of it.                                     *)
C23_AssignedIdIsImmutable ==
    [][/\ \A f \in ImageFrames :
             SockMessage(1, Json(f))
             => \A k \in 1 .. Len(messages) :
                   IsDefined(messages[k].id) => messages'[k].id = messages[k].id
       /\ \A f \in HistoryImageBatches :
             SockMessage(1, Json(f))
             => \A k \in 1 .. Len(messages) :
                   IsDefined(messages[k].id)
                   => messages'[Len(ValueOf(f.history)) + k].id = messages[k].id]_vars


(* C24: once the controller has called disconnect() on its service, which   *)
(* is when it gives up its reference to it (handleDisconnect's finally      *)
(* block, the startup effect's cleanup), the service constructs no socket   *)
(* and no socket of it opens, whatever phase of initialize() it was in.     *)
C24_NoSocketAfterDisconnect ==
    [][wsCur = 0
       => \A i \in DOMAIN svc :
             /\ ~SocketConstructed(i)
             /\ ~(svc[i].sock # "OPEN" /\ svc'[i].sock = "OPEN")]_vars


(* C25: while isConnected is true the controller refers to a service whose  *)
(* socket is open, so that sendMessage does not throw 'WebSocket is not     *)
(* connected'.                                                              *)
C25_ConnectedMeansOpenSocket ==
    isConnected => wsCur # 0 /\ SocketIsOpen(svc[wsCur])


C27_UncleanCloseEmptiesLog ==
    [][\A i \in DOMAIN svc :
          "close" \in svc[i].handlers /\ SockClose(i, FALSE)
          => messages' = <<>> /\ users' = <<>> /\ SessionEmpty']_vars

-----------------------------------------------------------------------------
(* The frames of errors: error frames without content, with a text that     *)
(* holds none of the patterns, that is a pattern, that holds one, and that  *)
(* differs from one in case; and the frames that fill the log, the presence *)
(* list and the cursor beforehand.                                          *)

ErrorContents ==
    {"", "boom", "authentication failed", "Error: Invalid room name."}
    \cup FatalPatterns

ErrorFrames == {ErrorFrame(content) : content \in ErrorContents}

UserListFrame(list) == [Frame("user_list") EXCEPT !.userList = Some(list)]

FillingFrames ==
    {ChatFrame(Some(1), "bob", "hi"),
     HistoryBatch(Some(<<>>), TRUE, "p1"),
     UserListFrame(<<"alice", "bob">>)}

ReceiveError == \E f \in ErrorFrames : SockMessage(1, Json(f))

ReceiveFilling == \E f \in FillingFrames : SockMessage(1, Json(f))

NextError ==
    \/ ReceiveError
    \/ ReceiveFilling
    \/ \E resp \in LogoutResponses : LogoutDone(resp)
    \/ \E wasClean \in BOOLEAN : SockClose(1, wasClean)

SpecError == InitOpen /\ [][NextError]_vars

(* The logout request of a pending handleDisconnect is answered or fails:   *)
(* fetch settles its promise either way.                                    *)
SpecErrorLive ==
    SpecError /\ WF_vars(\E resp \in LogoutResponses : LogoutDone(resp))

(* C28: an error frame whose content holds 'Authentication failed',         *)
(* 'Username already exists' or 'Invalid room name' calls handleDisconnect, *)
(* and from then on the controller eventually has no service, the service   *)
(* is disconnected and without subscribers, and session, log and presence   *)
(* list are empty.                                                          *)
C28_FatalErrorForcesDisconnect ==
    /\ [][\A f \in ErrorFrames :
            (\E p \in FatalPatterns : Includes(f.content, p))
            /\ SockMessage(1, Json(f))
            => discs' = discs + 1 /\ last' = Did("error", f.content)]_vars
    /\ (last.op = "error" /\ last.out \in ErrorContents \ {"", "boom", "authentication failed"})
          ~> (/\ TornDown
              /\ svc[1].handlers = {} /\ ~svc[1].ws /\ svc[1].sock # "OPEN")

C28_Witness ==
    /\ last = Did("error", "Error: Invalid room name.")
    /\ discs = 1
    /\ isConnected /\ wsCur = 1 /\ svc[1].sock = "OPEN"
    /\ Len(messages) = 1 /\ users = <<"alice", "bob">>


(* C29: an error frame whose content holds none of the three patterns (no   *)
(* content, another text, a pattern in another case) changes neither the    *)
(* log, the presence list, the cursor, the session, the services nor the    *)
(* disconnects in flight; an error frame of any content leaves the log as   *)
(* it is.                                                                   *)
C29_NonFatalErrorChangesNothing ==
    [][\A f \in ErrorFrames :
          SockMessage(1, Json(f))
          => /\ messages' = messages
             /\ f.content \in {"", "boom", "authentication failed"}
                   => UNCHANGED <<appVars, wsCur, cleanupRef, conns, discs, svc>>]_vars

C29_Witness ==
    /\ last = Did("error", "authentication failed")
    /\ discs = 0
    /\ isConnected /\ username = LocalUser /\ wsCur = 1 /\ svc[1].sock = "OPEN"
    /\ Len(messages) = 1 /\ users = <<"alice", "bob">>
    /\ hasMoreHistory /\ pageToken = "p1"


IsNoticeFrame(f) == f.type \in {"notification", "join", "leave"}

AppendsOneNotification ==
    /\ Len(messages') = Len(messages) + 1
    /\ SubSeq(messages', 1, Len(messages)) = messages
    /\ messages'[Len(messages')].type = "notification"
    /\ messages'[Len(messages')].id = Absent
    /\ messages'[Len(messages')].timestamp = Now

-----------------------------------------------------------------------------
(* The items of history: chat, image and notification items of bob, without *)
(* embedded history, with an empty one, with a reaction, and with a         *)
(* reaction that lacks its timestamp.                                       *)

EmbeddedHistories ==
    {Absent, Some(<<>>), Some(<<ReactionItem("alice", "+", "t1")>>),
     Some(<<ReactionItem("alice", "+", "t1"), ReactionItem("bob", "+", "")>>)}

HistoryItems ==
    {[HistItem(t) EXCEPT !.id = Some(1), !.username = "bob", !.content = "hi",
                         !.timestamp = "t0", !.history = h] :
        t \in {"chat", "image", "notification"}, h \in EmbeddedHistories}

HistoryItemBatches ==
    {HistoryBatch(Some(q), FALSE, "") : q \in SeqsUpTo(HistoryItems, MaxHist)}

ReceiveHistoryItems == \E f \in HistoryItemBatches : SockMessage(1, Json(f))

NextHistory == ReceiveHistoryItems \/ ReceiveChat

SpecHistory == InitOpen /\ [][NextHistory]_vars

(* C31: the entry made of an item of a history batch has the item's id, the *)
(* item's type, and for reactions the reactions that the item embeds, all   *)
(* of them and in their order.                                              *)
C31_HistoryItemsKeepIdTypeReactions ==
    [][\A f \in HistoryItemBatches :
          last'.op = "history_batch" /\ SockMessage(1, Json(f))
          => LET h == ValueOf(f.history)
             IN  \A k \in 1 .. Len(h) :
                    /\ messages'[k].id = h[k].id
                    /\ messages'[k].type = h[k].type
                    /\ messages'[k].reactions =
                          IF IsDefined(h[k].history)
                          THEN Some(ReactionsOf(ValueOf(h[k].history)))
                          ELSE Absent]_vars


(* C32: a reaction frame leaves the log with the same length and order,     *)
(* every entry whose id is not the frame's reactionToId unchanged and every *)
(* entry unchanged but for its reactions; when no entry has that id, or the *)
(* frame has no reactionToId, the log is unchanged and nothing is thrown.   *)
C32_ReactionTouchesOnlyItsTarget ==
    [][\A f \in ReactionFrames :
          last'.op = "reaction" /\ SockMessage(1, Json(f))
          => /\ Len(messages') = Len(messages)
             /\ \A k \in 1 .. Len(messages) :
                   /\ [messages'[k] EXCEPT !.reactions = messages[k].reactions]
                         = messages[k]
                   /\ messages[k].id # f.reactionToId => messages'[k] = messages[k]
             /\ ~HasId(messages, f.reactionToId) \/ ~IsDefined(f.reactionToId)
                   => messages' = messages
             /\ ~last'.threw]_vars

C32_Witness ==
    /\ last = Did("reaction", "added")
    /\ Len(messages) = 2
    /\ messages[1].reactions = Absent
    /\ IsDefined(messages[2].reactions) /\ Len(ValueOf(messages[2].reactions)) > 0

-----------------------------------------------------------------------------
(* Frames of every type in one connection: chat messages of bob and of      *)
(* alice, one of them without id, images, a notification, a join and a      *)
(* leave, a reaction to message 1, a history batch of one older message, a  *)
(* user list and an error.                                                  *)

MixedFrames ==
    {ChatFrame(Some(1), "bob", "hi"),
     ChatFrame(Some(2), LocalUser, "hi"),
     ChatFrame(Absent, "bob", "hi"),
     ImageFrame(Some(2), LocalUser, "X"),
     ImageFrame(Some(1), "bob", "X"),
     [Frame("notification") EXCEPT !.content = "hi"],
     [Frame("join") EXCEPT !.username = "bob", !.room = "r",
                           !.userList = Some(<<"alice", "bob">>)],
     [Frame("leave") EXCEPT !.username = "bob", !.room = "r"],
     [Frame("reaction") EXCEPT !.reactionToId = Some(1), !.username = LocalUser,
                               !.reaction = "+",
                               !.history = Some(<<ReactionItem("bob", "-", "t2")>>)],
     HistoryBatch(Some(<<[HistItem("chat") EXCEPT !.id = Some(2), !.username = "bob",
                                                  !.content = "old",
                                                  !.timestamp = "t0"]>>),
                  FALSE, ""),
     UserListFrame(<<"alice", "bob">>),
     ErrorFrame("boom")}

ReceiveMixed == \E f \in MixedFrames : SockMessage(1, Json(f))

NextMixed == ReceiveMixed \/ Focus

SpecMixed == InitOpen /\ [][NextMixed]_vars

(* what an entry is, apart from the id and the reactions it is given later *)
SameEntry(a, b) ==
    /\ a.type = b.type /\ a.sender = b.sender /\ a.content = b.content
    /\ a.timestamp = b.timestamp /\ a.imageData = b.imageData

(* C33: a history batch leaves the entries of the log, in their order, at   *)
(* the end of the new log; every other frame leaves them, in their order,   *)
(* at the front of the new log and adds at most one entry, after them.      *)
C33_NeverReSorts ==
    [][\A f \in MixedFrames :
          SockMessage(1, Json(f))
          => IF f.type = "history_batch"
             THEN /\ Len(messages') = Len(ValueOf(f.history)) + Len(messages)
                  /\ \A k \in 1 .. Len(messages) :
                        messages'[Len(ValueOf(f.history)) + k] = messages[k]
             ELSE /\ Len(messages') \in {Len(messages), Len(messages) + 1}
                  /\ \A k \in 1 .. Len(messages) :
                        SameEntry(messages'[k], messages[k])]_vars

C33_Witness ==
    /\ last = Did("image", "appended")
    /\ Len(messages) = 3
    /\ messages[1].id = Some(2) /\ messages[1].content = "old"
    /\ messages[2].id = Some(1) /\ messages[2].content = "hi"
    /\ messages[3].type = "image" /\ messages[3].sender = "bob"


(* C34: hasNewMessage goes from false to true only in the step of a chat or *)
(* image frame of another user that adds an entry to the log; a frame of    *)
(* the local user, a chat frame whose id is in the log, and a frame of any  *)
(* other type leave the flag as it is.                                      *)
C34_UnseenOnlyForOthersNewEntries ==
    /\ [][~hasNewMessage /\ hasNewMessage'
          => \E f \in MixedFrames :
                /\ f.type \in {"chat", "image"} /\ f.username # username
                /\ SockMessage(1, Json(f))
                /\ Len(messages') = Len(messages) + 1]_vars
    /\ [][\A f \in MixedFrames :
            /\ \/ f.type \notin {"chat", "image"}
               \/ f.username = username
               \/ f.type = "chat" /\ HasId(messages, f.id)
            /\ SockMessage(1, Json(f))
            => hasNewMessage' = hasNewMessage]_vars

C34_Witness ==
    /\ last = Did("chat", "Added new message")
    /\ ~hasNewMessage
    /\ Len(messages) = 2
    /\ messages[1].sender = "bob" /\ messages[1].id = Some(1)
    /\ messages[2].sender = LocalUser /\ messages[2].id = Some(2)


NothingStarted ==
    /\ conns["startup"].pc = "idle"
    /\ wsCur = 0
    /\ \A i \in DOMAIN svc : svc[i].phase = "unborn"

(* C35: when the component has been unmounted while the startup             *)
(* checkSession was in flight, the resolution of that checkSession,         *)
(* whatever the session, changes no state of the controller, starts no      *)
(* connectWebSocket call and constructs no service; nor does any later      *)
(* step.                                                                    *)
C35_NoResumeAfterTeardown ==
    [][/\ \A resp \in SessionResponses :
             ~mounted /\ StartupSessionDone(resp)
             => UNCHANGED <<appVars, wsCur, cleanupRef, conns, discs, svc>>
       /\ ~mounted /\ NothingStarted => NothingStarted']_vars

C35_Witness ==
    /\ ~mounted /\ startup = "done"
    /\ last.op = "startup"
    /\ NothingStarted
    /\ username = "" /\ ~isConnected

-----------------------------------------------------------------------------
(* Leaving and joining again: alice is connected; her first connection      *)
(* receives a history batch with the cursor (true, "p1"), she asks for more *)
(* history, leaves the room, and joins again without a token.  No later     *)
(* connection receives a history batch.                                     *)

NextRejoin ==
    \/ SockMessage(1, Json(HistoryBatch(Some(<<>>), TRUE, "p1")))
    \/ isConnected /\ LoadMoreHistory
    \/ isConnected /\ HandleDisconnect
    \/ \E resp \in LogoutResponses : LogoutDone(resp)
    \/ ~isConnected /\ Connect(LocalUser, "")
    \/ \E resp \in SessionResponses : ConnCheckDone("ui", resp)
    \/ \E i \in DOMAIN svc, resp \in SessionResponses : SvcCheckDone(i, resp)
    \/ \E i \in DOMAIN svc : SockOpen(i)
    \/ \E i \in DOMAIN svc, wasClean \in BOOLEAN : SockClose(i, wasClean)

SpecRejoin == InitOpen /\ [][NextRejoin]_vars

(* C36: a handleDisconnect that completes leaves the cursor at (false, "")  *)
(* and loadMoreHistory called on a later connection, which has received no  *)
(* history batch of its own, transmits nothing.                             *)
C36_CursorResetByDisconnect ==
    /\ [][\A resp \in LogoutResponses :
            LogoutDone(resp) => ~hasMoreHistory' /\ pageToken' = ""]_vars
    /\ [](last.op = "loadMoreHistory" /\ wsCur # 1 => last.sent = Absent)

-----------------------------------------------------------------------------
(* One connection, open, in the default room or in room "r": the session    *)
(* resumed at launch carries its room.  The frames and operations are those *)
(* of the pagination cursor.                                                *)

InitOpenInRoom ==
    /\ username = LocalUser
    /\ roomName \in Rooms
    /\ isConnected = TRUE
    /\ messages = <<>>
    /\ users = <<>>
    /\ hasMoreHistory = FALSE
    /\ pageToken = ""
    /\ hasNewMessage = FALSE
    /\ wsCur = 1
    /\ cleanupRef = Subscriptions(1)
    /\ mounted = TRUE
    /\ startup = "done"
    /\ conns = [c \in Callers |-> Idle]
    /\ discs = 0
    /\ svc = [i \in 1 .. MaxSvc |->
                 IF i = 1 THEN [OpenService EXCEPT !.room = roomName] ELSE NoSvc]
    /\ last = [Did("onopen", "WebSocket Connected") EXCEPT !.notified = {"open"}]

SpecLoadMore == InitOpenInRoom /\ [][NextCursor]_vars

(* C37: loadMoreHistory called with hasMoreHistory true, a pageToken and a  *)
(* service whose socket is open transmits one frame, of type                *)
(* load_more_history, with the stored pageToken, the current room and user  *)
(* and the page size 50, throws nothing, and changes neither the log, the   *)
(* cursor nor anything else of the controller.                              *)
C37_LoadMoreSendsStoredCursor ==
    [][/\ hasMoreHistory /\ pageToken # ""
       /\ wsCur # 0 /\ SocketIsOpen(svc[wsCur])
       /\ LoadMoreHistory
       => /\ last'.sent =
                Some([type |-> "load_more_history", username |-> username,
                      room |-> roomName, content |-> "", reactionToId |-> Absent,
                      reaction |-> "", imageData |-> "", imageType |-> "",
                      pageToken |-> pageToken, pageSize |-> Some(50)])
          /\ ~last'.threw
          /\ UNCHANGED <<appVars, wsCur, cleanupRef, conns, discs, svc>>]_vars

C37_Witness ==
    /\ last.op = "loadMoreHistory" /\ ~last.threw
    /\ IsDefined(last.sent)
    /\ ValueOf(last.sent).type = "load_more_history"
    /\ ValueOf(last.sent).pageToken = "p1" /\ ValueOf(last.sent).room = "r"
    /\ ValueOf(last.sent).pageSize = Some(50)
    /\ hasMoreHistory /\ pageToken = "p1" /\ roomName = "r"
    /\ Len(messages) = 1


(* C38: a connectWebSocket call with a token has awaited authenticate once  *)
(* when it constructs its service; the service it constructs does not       *)
(* await authenticate again before it constructs the socket.                *)
C38_AuthenticateOncePerConnect ==
    /\ [][\A i \in DOMAIN svc :
            Constructed(i) /\ svc'[i].token # "" => svc'[i].phase # "auth"]_vars
    /\ [](\A i \in DOMAIN svc :
            svc[i].token # "" /\ svc[i].sock # "none"
            => \A k \in 1 .. Len(svc[i].done) :
                  svc[i].done[k] # "authenticate returned")


(* C39: a chat frame with a username and a content but without id adds one  *)
(* chat entry with that sender and content at the end of the log, whatever  *)
(* entries without id (notifications, earlier id-less messages) the log     *)
(* holds.                                                                   *)
C39_IdlessChatIsAppended ==
    [][\A f \in MixedFrames :
          /\ f.type = "chat" /\ f.id = Absent /\ f.username # "" /\ f.content # ""
          /\ SockMessage(1, Json(f))
          => /\ Len(messages') = Len(messages) + 1
             /\ messages'[Len(messages')].type = "chat"
             /\ messages'[Len(messages')].sender = f.username
             /\ messages'[Len(messages')].content = f.content]_vars


(* C40: a service constructs a socket only while it has never had one, so   *)
(* at most one in its lifetime; and connect() applied to a service that is  *)
(* connecting or whose socket is open returns without changing it.          *)
C40_AtMostOneSocketPerService ==
    /\ [][\A i \in DOMAIN svc :
            /\ SocketConstructed(i) => svc[i].sock = "none" /\ ~svc[i].ws
            /\ svc[i].sock # "none" => svc'[i].sock # "none"]_vars
    /\ [](\A i \in DOMAIN svc :
            svc[i].isConnecting \/ (svc[i].ws /\ svc[i].sock = "OPEN")
            => SvcConnect(svc[i]) = svc[i])

C40_Witness ==
    /\ last.op = "onopen"
    /\ svc[1].phase = "ready" /\ svc[1].sock = "OPEN" /\ svc[1].ws
    /\ ~svc[1].isConnecting
    /\ SvcConnect(svc[1]) = svc[1]

=============================================================================
